---- MODULE Spec2Model ----
(***************************************************************************)
(* Message dispatch and command execution of BaseBot                       *)
(* (src/twitchbot/bots/basebot.py).                                        *)
(*                                                                         *)
(* The coroutine BaseBot.mainloop is one process (mainPc); every           *)
(* _run_command task created by the loop is a process of its own in a      *)
(* slot of `tasks`.  A step of a coroutine runs from one suspension point  *)
(* (an await that can really suspend) to the next, which is how asyncio    *)
(* interleaves coroutines on its single thread.                            *)
(***************************************************************************)
EXTENDS Integers, FiniteSets, Sequences, TLC

\* ------------------------------------------------------------------ bounds
MaxTime == 2       \* the clock runs from 0 to MaxTime seconds
MaxTasks == 2      \* _run_command tasks alive at the same time

\* --------------------------------------------------------------- constants
\* enums.py CommandContext(IntFlag): auto() numbers the flags 1, 2
CHANNEL == 1
WHISPER == 2

BitAnd2(a, b) ==
    (IF (a % 2 = 1) /\ (b % 2 = 1) THEN 1 ELSE 0)
    + (IF ((a \div 2) % 2 = 1) /\ ((b \div 2) % 2 = 1) THEN 2 ELSE 0)

BitOr2(a, b) ==
    (IF (a % 2 = 1) \/ (b % 2 = 1) THEN 1 ELSE 0)
    + (IF ((a \div 2) % 2 = 1) \/ ((b \div 2) % 2 = 1) THEN 2 ELSE 0)

BOTH == BitOr2(CHANNEL, WHISPER)

\* enums.py MessageType
MessageType ==
    {"PRIVMSG", "WHISPER", "COMMAND", "PING", "USER_JOIN", "USER_PART",
     "SUBSCRIPTION", "RAID", "USER_NOTICE", "CHANNEL_POINTS_REDEMPTION",
     "BITS", "NONE"}

\* enums.py Event
Event ==
    {"on_before_command_execute", "on_after_command_execute", "on_bits_donated",
     "on_channel_subscription", "on_channel_raided", "on_channel_joined",
     "on_connected", "on_privmsg_received", "on_privmsg_sent",
     "on_whisper_received", "on_whisper_sent", "on_permission_check",
     "on_raw_message", "on_user_join", "on_user_part", "on_mod_reloaded",
     "on_channel_points_redemption"}

\* the three listener populations of an event: the bot's own method, the
\* loaded modules (trigger_mod_event), the ad-hoc subscribers (trigger_event)
Populations == {"bot", "mods", "subs"}

\* ------------------------------------------------- configuration and stores
\* config.get_nick(): the bot's own nick
Nick == "bot"

Users == {"alice", "mod"}

\* cfg.channels
Channels == {"c1"}

\* first tokens of a user message (msg.parts[0].lower())
Tokens == {"ping", "hello", "hi"}

\* Message.channel_name of a whisper: a whisper belongs to no channel
NoChannel == ""

\* the absent value of get_command_from_msg (Python None)
None ==
    [name |-> "", custom |-> FALSE, context |-> 0, permission |-> "",
     cooldown |-> 0, cooldown_bypass |-> ""]

\* command.commands: the registry of built-in commands, by name; "ping" runs
\* in channels and whispers, "secret" in whispers only
commands ==
    [n \in {"ping", "secret"} |->
        IF n = "ping"
        THEN [name |-> "ping", custom |-> FALSE, context |-> BOTH,
              permission |-> "admin", cooldown |-> 2,
              cooldown_bypass |-> "bypass_cooldown"]
        ELSE [name |-> "secret", custom |-> FALSE, context |-> WHISPER,
              permission |-> "", cooldown |-> 0,
              cooldown_bypass |-> "bypass_cooldown"]]

\* database.get_custom_command(channel, name): the per-channel custom
\* commands; "" when there is none
get_custom_command(channel, name) ==
    IF channel \in Channels /\ name = "hello" THEN "hello" ELSE ""

\* command.CustomCommandAction(cmd): a stored custom command behind the
\* Command contract; it has no permission of its own and runs in channels
CustomCommandAction(name) ==
    [name |-> name, custom |-> TRUE, context |-> CHANNEL, permission |-> "",
     cooldown |-> 1, cooldown_bypass |-> "bypass_cooldown"]

\* permission.perms: the permissions each user holds
UserPermissions ==
    [u \in Users |->
        IF u = "mod" THEN {"admin", "bypass_cooldown"} ELSE {}]

\* perms.has_permission(channel, user, perm)
has_permission(channel, user, perm) ==
    perm = "" \/ perm \in UserPermissions[user]

\* ------------------------------------------------------------------ Message
\* message.Message: the snapshot of one inbound line
Message(type, author, channel_name, token) ==
    [type |-> type, author |-> author, channel_name |-> channel_name,
     token |-> token]

is_whisper(msg) == msg.type = "WHISPER"
is_privmsg(msg) == msg.type = "PRIVMSG"
is_user_message(msg) == msg.type \in {"PRIVMSG", "WHISPER"}

\* the lines the transport can deliver, already parsed; type "" is the
\* empty read
Lines ==
    {Message("PRIVMSG", a, c, t) : a \in Users, c \in Channels, t \in Tokens}
    \cup {Message("WHISPER", a, NoChannel, t) : a \in Users, t \in Tokens}
    \cup {Message("PRIVMSG", Nick, c, "ping") : c \in Channels}
    \cup {Message("PRIVMSG", "alice", c, "secret") : c \in Channels}
    \cup {Message("WHISPER", "mod", NoChannel, "secret")}
    \cup {Message("USER_JOIN", a, c, "") : a \in {Nick, "alice"}, c \in Channels}
    \cup {Message(ty, "alice", c, "") :
            ty \in {"USER_PART", "SUBSCRIPTION", "RAID", "BITS",
                    "CHANNEL_POINTS_REDEMPTION"}, c \in Channels}
    \cup {Message(ty, "", NoChannel, "") : ty \in {"PING", "NONE", ""}}

NoMsg == Message("", "", NoChannel, "")

\* Message.reply(msg, whisper): where the reply goes
reply(msg, whisper) ==
    IF is_privmsg(msg) /\ ~whisper THEN "channel"
    ELSE IF is_whisper(msg) \/ (whisper /\ is_privmsg(msg)) THEN "whisper"
    ELSE "nowhere"

\* BaseBot.get_command_from_msg
get_command_from_msg(msg) ==
    IF msg.token \in DOMAIN commands THEN commands[msg.token]
    ELSE IF get_custom_command(msg.channel_name, msg.token) # ""
         THEN CustomCommandAction(get_custom_command(msg.channel_name, msg.token))
         ELSE None

\* modloader.mods: the loaded extension modules, in registry order
mods == <<"m1", "m2">>

\* -------------------------------------------------------------------- state
VARIABLES
    running,    \* BaseBot._running
    mainPc,     \* where the coroutine mainloop stands
    msg,        \* mainloop's local msg while it awaits on_raw_message
    unloadIdx,  \* mainloop's position in `for mod in mods.values()`
    tasks,      \* the _run_command tasks created by the loop, by slot
    now,        \* the clock, in seconds
    lastExec,   \* the cooldown record: (channel, fullname) -> last execution
    cur,        \* what the last step of the loop did with its line
    ev          \* what the last step of a _run_command task did

vars == <<running, mainPc, msg, unloadIdx, tasks, now, lastExec, cur, ev>>

Slots == 1..MaxTasks
NoRecord == 0 - 1

\* keys of the cooldown record
Keys == (Channels \cup {NoChannel}) \X {"ping", "secret", "hello"}

NoTask == [msg |-> NoMsg, cmd |-> None, pc |-> "none", start |-> NoRecord]

\* the loop did nothing in this step: no line, no event awaited or scheduled
\* as a task, nothing sent to the server, no server greeting read, no
\* module unloaded
NoCur ==
    [msg |-> NoMsg, awaited |-> {}, created |-> {}, pong |-> 0, run |-> "",
     sent |-> <<>>, greeted |-> FALSE, resp |-> {}, unloaded |-> "",
     raised |-> FALSE]

AllTrue == [p \in Populations |-> TRUE]

\* no task stepped
NoEv ==
    [task |-> 0, msg |-> NoMsg, cmd |-> None, step |-> "", outcome |-> "",
     hooks |-> AllTrue, asked |-> {}, after |-> {}, replies |-> <<>>,
     disabled |-> FALSE, whitelisted |-> FALSE, denyMsg |-> FALSE,
     cdChecked |-> FALSE, cdWritten |-> FALSE, body |-> FALSE]

\* --------------------------------------------------------- the cooldown store
\* command.get_time_since_execute(channel, fullname)
get_time_since_execute(channel, fullname) ==
    IF lastExec[<<channel, fullname>>] = NoRecord
    THEN MaxTime + 100
    ELSE now - lastExec[<<channel, fullname>>]

\* command.is_command_on_cooldown(channel, fullname, cooldown)
is_command_on_cooldown(channel, fullname, cooldown) ==
    get_time_since_execute(channel, fullname) < cooldown

\* command.update_command_last_execute(channel, fullname)
update_command_last_execute(channel, fullname) ==
    [lastExec EXCEPT ![<<channel, fullname>>] = now]

\* ------------------------------------------------------------- _run_command
\* A gate of the form
\*     not await self.on_X(msg, cmd)
\*     or not all(await trigger_mod_event(Event.on_X, ...))
\*     or not all(await trigger_event(Event.on_X, ...))
\* asks the populations in this order and, `or` being lazy, stops at the
\* first one that refuses.  hooks[p] is what population p answers when asked.
hooks_asked(hooks) ==
    IF ~hooks["bot"] THEN {"bot"}
    ELSE IF ~hooks["mods"] THEN {"bot", "mods"}
    ELSE {"bot", "mods", "subs"}

\* a gate that forgets the answer of the ad-hoc subscribers
hooks_refuse_without_subs(hooks) ==
    ~hooks["bot"] \/ ~hooks["mods"]

hooks_refuse(hooks) ==
    ~hooks["bot"] \/ ~hooks["mods"] \/ ~hooks["subs"]

Reply(kind, via, secs) == [kind |-> kind, via |-> via, secs |-> secs]

\* the cooldown bypass is never granted
no_cooldown_bypass_permission(m, cmd) == FALSE

\* the local has_cooldown_bypass_permission of _run_command
has_cooldown_bypass_permission(m, cmd) ==
    has_permission(m.channel_name, m.author, cmd.cooldown_bypass)

GatePass ==
    [outcome |-> "pass", asked |-> {}, replies |-> <<>>, cdChecked |-> FALSE,
     cdWritten |-> FALSE, body |-> FALSE]

\* the permission gate refused: the reply is whispered, whatever the context
permission_denied(m, hooks) ==
    [GatePass EXCEPT !.outcome = "permission", !.asked = hooks_asked(hooks),
                     !.replies = <<Reply("permission", reply(m, TRUE), 0)>>]

\* the later gates, with the whitelist looked at before the disabled-command
\* store
gates_whitelist_first(m, cmd, hooks, disabled, whitelisted, denyMsg) ==
    LET r == [GatePass EXCEPT !.asked = hooks_asked(hooks)]
    IN  IF ~cmd.custom /\ ~whitelisted
        THEN [r EXCEPT !.outcome = "whitelist",
                       !.replies = IF denyMsg
                                   THEN <<Reply("whitelist", reply(m, FALSE), 0)>>
                                   ELSE <<>>]
        ELSE IF ~cmd.custom /\ disabled
        THEN [r EXCEPT !.outcome = "disabled",
                       !.replies = <<Reply("disabled", reply(m, FALSE), 0)>>]
        ELSE IF has_cooldown_bypass_permission(m, cmd)
        THEN r
        ELSE IF is_command_on_cooldown(m.channel_name, cmd.name, cmd.cooldown)
        THEN [r EXCEPT !.outcome = "cooldown", !.cdChecked = TRUE,
                       !.replies =
                           <<Reply("cooldown", reply(m, FALSE),
                                   cmd.cooldown
                                   - get_time_since_execute(m.channel_name, cmd.name))>>]
        ELSE [r EXCEPT !.cdChecked = TRUE]

\* _run_command after the permission gate: the disabled-command, whitelist
\* and cooldown gates
gates_after_permission(m, cmd, hooks, disabled, whitelisted, denyMsg) ==
    LET r == [GatePass EXCEPT !.asked = hooks_asked(hooks)]
    IN  IF ~cmd.custom /\ disabled
        THEN [r EXCEPT !.outcome = "disabled",
                       !.replies = <<Reply("disabled", reply(m, FALSE), 0)>>]
        ELSE IF ~cmd.custom /\ ~whitelisted
        THEN [r EXCEPT !.outcome = "whitelist",
                       !.replies = IF denyMsg
                                   THEN <<Reply("whitelist", reply(m, FALSE), 0)>>
                                   ELSE <<>>]
        ELSE IF has_cooldown_bypass_permission(m, cmd)
        THEN r
        ELSE IF is_command_on_cooldown(m.channel_name, cmd.name, cmd.cooldown)
        THEN [r EXCEPT !.outcome = "cooldown", !.cdChecked = TRUE,
                       !.replies =
                           <<Reply("cooldown", reply(m, FALSE),
                                   cmd.cooldown
                                   - get_time_since_execute(m.channel_name, cmd.name))>>]
        ELSE [r EXCEPT !.cdChecked = TRUE]

\* the gates, with the cooldown record refreshed by a call on cooldown
run_command_gates_touching(m, cmd, hooks, disabled, whitelisted, denyMsg) ==
    LET r == IF hooks_refuse(hooks)
             THEN permission_denied(m, hooks)
             ELSE gates_after_permission(m, cmd, hooks, disabled, whitelisted, denyMsg)
    IN  [r EXCEPT !.cdWritten = (r.outcome = "cooldown")]

\* the gates, with a cooldown rejection that sends no reply
run_command_gates_mute(m, cmd, hooks, disabled, whitelisted, denyMsg) ==
    LET r == IF hooks_refuse(hooks)
             THEN permission_denied(m, hooks)
             ELSE gates_after_permission(m, cmd, hooks, disabled, whitelisted, denyMsg)
    IN  [r EXCEPT !.replies = IF r.outcome = "cooldown" THEN <<>> ELSE @]

\* the gates, with a whitelist rejection that replies whatever the flag
run_command_gates_loud(m, cmd, hooks, disabled, whitelisted, denyMsg) ==
    LET r == IF hooks_refuse(hooks)
             THEN permission_denied(m, hooks)
             ELSE gates_after_permission(m, cmd, hooks, disabled, whitelisted, denyMsg)
    IN  [r EXCEPT !.replies = IF r.outcome = "whitelist"
                              THEN <<Reply("whitelist", reply(m, FALSE), 0)>>
                              ELSE @]

\* the gates, with the permission reply sent without whisper=True
run_command_gates_unwhispered(m, cmd, hooks, disabled, whitelisted, denyMsg) ==
    LET r == IF hooks_refuse(hooks)
             THEN permission_denied(m, hooks)
             ELSE gates_after_permission(m, cmd, hooks, disabled, whitelisted, denyMsg)
    IN  [r EXCEPT !.replies = IF r.outcome = "permission"
                              THEN <<Reply("permission", reply(m, FALSE), 0)>>
                              ELSE @]

\* the gates, with a cooldown reply that reports the seconds elapsed
run_command_gates_elapsed(m, cmd, hooks, disabled, whitelisted, denyMsg) ==
    LET r == IF hooks_refuse(hooks)
             THEN permission_denied(m, hooks)
             ELSE gates_after_permission(m, cmd, hooks, disabled, whitelisted, denyMsg)
    IN  [r EXCEPT !.replies =
            IF r.outcome = "cooldown"
            THEN <<Reply("cooldown", reply(m, FALSE),
                         get_time_since_execute(m.channel_name, cmd.name))>>
            ELSE @]

\* _run_command from its start to its first return or to the await of the
\* pre-execute hooks: the permission, disabled, whitelist and cooldown gates
run_command_gates(m, cmd, hooks, disabled, whitelisted, denyMsg) ==
    IF hooks_refuse(hooks)
    THEN permission_denied(m, hooks)
    ELSE gates_after_permission(m, cmd, hooks, disabled, whitelisted, denyMsg)

\* pre-execute hooks whose refusal is not acted on
run_command_before_lenient(m, cmd, hooks) ==
    [outcome |-> IF hooks_refuse(hooks) THEN "veto" ELSE "started",
     asked |-> hooks_asked(hooks),
     body |-> TRUE]

\* _run_command from the pre-execute hooks to the call of cmd.execute
run_command_before(m, cmd, hooks) ==
    [outcome |-> IF hooks_refuse(hooks) THEN "veto" ELSE "started",
     asked |-> hooks_asked(hooks),
     body |-> ~hooks_refuse(hooks)]

\* the end of _run_command with the cooldown written in a `finally`
run_command_execute_finally(m, cmd, result) ==
    [outcome |-> result,
     cdWritten |-> ~has_cooldown_bypass_permission(m, cmd),
     replies |-> IF result = "invalid_args"
                 THEN <<Reply("help", reply(m, FALSE), 0)>>
                 ELSE <<>>,
     after |-> IF result = "ok" THEN Populations ELSE {}]

\* _run_command from the return of cmd.execute to its end; result is how the
\* body ended: "ok", "invalid_args" (InvalidArgumentsError) or "error"
run_command_execute(m, cmd, result) ==
    [outcome |-> result,
     cdWritten |-> (result = "ok") /\ ~has_cooldown_bypass_permission(m, cmd),
     replies |-> IF result = "invalid_args"
                 THEN <<Reply("help", reply(m, FALSE), 0)>>
                 ELSE <<>>,
     after |-> IF result = "ok" THEN Populations ELSE {}]

\* the event loop runs tasks while mainloop is suspended in an await
LoopSuspended == mainPc \in {"read", "raw", "unload"}

Key(m, cmd) == <<m.channel_name, cmd.name>>

\* H: what the populations may answer; D, W, F: what the disabled-command
\* store, the whitelist and the whitelist-deny-message flag may answer
GatesIn(s, H, D, W, F) ==
    /\ LoopSuspended
    /\ tasks[s].pc = "perm"
    /\ \E hooks \in H, disabled \in D, whitelisted \in W, denyMsg \in F :
        LET m == tasks[s].msg
            cmd == tasks[s].cmd
            r == run_command_gates(m, cmd, hooks, disabled, whitelisted, denyMsg)
        IN  /\ tasks' = [tasks EXCEPT ![s] =
                            IF r.outcome = "pass"
                            THEN [@ EXCEPT !.pc = "before"]
                            ELSE NoTask]
            /\ lastExec' = IF r.cdWritten
                           THEN update_command_last_execute(m.channel_name, cmd.name)
                           ELSE lastExec
            /\ ev' = [NoEv EXCEPT
                        !.task = s, !.msg = m, !.cmd = cmd, !.step = "gates",
                        !.outcome = r.outcome,
                        !.hooks = [p \in Populations |-> p \in r.asked => hooks[p]],
                        !.asked = r.asked, !.replies = r.replies,
                        !.disabled = disabled, !.whitelisted = whitelisted,
                        !.denyMsg = denyMsg,
                        !.cdChecked = r.cdChecked, !.cdWritten = r.cdWritten,
                        !.body = r.body]
    /\ cur' = NoCur
    /\ UNCHANGED <<running, mainPc, msg, unloadIdx, now>>

BeforeExecuteIn(s, H) ==
    /\ LoopSuspended
    /\ tasks[s].pc = "before"
    /\ \E hooks \in H :
        LET m == tasks[s].msg
            cmd == tasks[s].cmd
            r == run_command_before(m, cmd, hooks)
        IN  /\ tasks' = [tasks EXCEPT ![s] =
                            IF r.body
                            THEN [@ EXCEPT !.pc = "body", !.start = now]
                            ELSE NoTask]
            /\ ev' = [NoEv EXCEPT
                        !.task = s, !.msg = m, !.cmd = cmd, !.step = "before",
                        !.outcome = r.outcome,
                        !.hooks = [p \in Populations |-> p \in r.asked => hooks[p]],
                        !.asked = r.asked, !.body = r.body]
    /\ cur' = NoCur
    /\ UNCHANGED <<running, mainPc, msg, unloadIdx, now, lastExec>>

ExecuteReturnsIn(s, R) ==
    /\ LoopSuspended
    /\ tasks[s].pc = "body"
    /\ \E result \in R :
        LET m == tasks[s].msg
            cmd == tasks[s].cmd
            r == run_command_execute(m, cmd, result)
        IN  /\ lastExec' = IF r.cdWritten
                           THEN update_command_last_execute(m.channel_name, cmd.name)
                           ELSE lastExec
            /\ ev' = [NoEv EXCEPT
                        !.task = s, !.msg = m, !.cmd = cmd, !.step = "execute",
                        !.outcome = r.outcome, !.replies = r.replies,
                        !.after = r.after, !.cdWritten = r.cdWritten]
    /\ tasks' = [tasks EXCEPT ![s] = NoTask]
    /\ cur' = NoCur
    /\ UNCHANGED <<running, mainPc, msg, unloadIdx, now>>

\* one second passes
Tick ==
    /\ now < MaxTime
    /\ now' = now + 1
    /\ cur' = NoCur
    /\ ev' = NoEv
    /\ UNCHANGED <<running, mainPc, msg, unloadIdx, tasks, lastExec>>

\* ----------------------------------------------------------------- mainloop
\* coro, mod_coro and event_coro of one event: its delivery to the bot's
\* method, to the modules and to the ad-hoc subscribers
Fanout(e) == {<<e, "bot">>, <<e, "mods">>, <<e, "subs">>}

\* the command mainloop looks up for a line
mainloop_cmd(m) ==
    IF is_user_message(m) /\ m.author # Nick
    THEN get_command_from_msg(m)
    ELSE None

NoReaction == [run |-> None, created |-> {}, pong |-> 0]

\* the two events of a JOIN, taken for each other
user_join_event_swapped(m) ==
    IF m.author = Nick THEN "on_user_join" ELSE "on_channel_joined"

\* the USER_JOIN branch: the bot has joined a channel, or a user has joined
\* a channel the bot is in
user_join_event(m) ==
    IF m.author = Nick THEN "on_channel_joined" ELSE "on_user_join"

\* the elif chain of mainloop over msg.type: the deliveries to create as
\* tasks and the number of PONGs to send
mainloop_reaction(m) ==
    LET d == NoReaction
    IN  IF m.type = "WHISPER"
        THEN [d EXCEPT !.created = Fanout("on_whisper_received")]
        ELSE IF m.type = "PRIVMSG"
        THEN [d EXCEPT !.created = Fanout("on_privmsg_received")]
        ELSE IF m.type = "USER_JOIN"
        THEN [d EXCEPT !.created = Fanout(user_join_event(m))]
        ELSE IF m.type = "USER_PART"
        THEN [d EXCEPT !.created = Fanout("on_user_part")]
        ELSE IF m.type = "SUBSCRIPTION"
        THEN [d EXCEPT !.created = Fanout("on_channel_subscription")]
        ELSE IF m.type = "RAID"
        THEN [d EXCEPT !.created = Fanout("on_channel_raided")]
        ELSE IF m.type = "PING"
        THEN [d EXCEPT !.pong = 1]
        ELSE IF m.type = "CHANNEL_POINTS_REDEMPTION"
        THEN [d EXCEPT !.created = Fanout("on_channel_points_redemption")]
        ELSE IF m.type = "BITS"
        THEN [d EXCEPT !.created = Fanout("on_bits_donated")]
        ELSE d

\* the command branch without its test of the context
runs_command_any_context(m, cmd) ==
    cmd # None

\* the command branch of mainloop: the context of the command must match
\* the kind of the message
runs_command(m, cmd) ==
    /\ cmd # None
    /\ \/ is_whisper(m) /\ BitAnd2(cmd.context, WHISPER) # 0
       \/ is_privmsg(m) /\ BitAnd2(cmd.context, CHANNEL) # 0

\* the chain without its PING branch
mainloop_dispatch_without_pong(m) ==
    IF runs_command(m, mainloop_cmd(m))
    THEN [NoReaction EXCEPT !.run = mainloop_cmd(m)]
    ELSE [mainloop_reaction(m) EXCEPT !.pong = 0]

\* the if/elif chain of mainloop: the command to run, or else the reaction
\* to the type of the message
mainloop_dispatch(m) ==
    IF runs_command(m, mainloop_cmd(m))
    THEN [NoReaction EXCEPT !.run = mainloop_cmd(m)]
    ELSE mainloop_reaction(m)

FreeSlots == {s \in Slots : tasks[s].pc = "none"}
FirstFree == CHOOSE s \in FreeSlots : \A o \in FreeSlots : s <= o

\* a loop that does not look at the running flag
LoopCheck_forever == "read"

\* `while self._running`, evaluated when an iteration ends
LoopCheck == IF running THEN "read" ELSE "unload"

\* mainloop from the return of `await self.on_raw_message(msg)` to the next
\* `await self.irc.get_next_message()`
Dispatched(m) ==
    LET d == mainloop_dispatch(m)
    IN  /\ tasks' = IF d.run # None
                    THEN [tasks EXCEPT ![FirstFree] =
                            [msg |-> m, cmd |-> d.run, pc |-> "perm",
                             start |-> NoRecord]]
                    ELSE tasks
        /\ cur' = [NoCur EXCEPT
                    !.msg = m,
                    !.awaited = {<<"on_raw_message", "bot">>},
                    !.created = {<<"on_raw_message", "mods">>,
                                 <<"on_raw_message", "subs">>} \cup d.created,
                    !.pong = d.pong,
                    !.run = d.run.name]
        /\ msg' = NoMsg
        /\ mainPc' = LoopCheck

\* BaseBot.run up to the await in _connect: without a configuration mainloop
\* returns at once, else util.send_auth writes the credentials and _connect
\* waits for the server's answer
Run ==
    /\ mainPc = "stopped"
    /\ running' = TRUE
    /\ \E configured \in BOOLEAN :
        /\ mainPc' = IF configured THEN "connecting" ELSE "exited"
        /\ cur' = [NoCur EXCEPT !.sent = IF configured THEN <<"AUTH">> ELSE <<>>]
    /\ ev' = NoEv
    /\ UNCHANGED <<msg, unloadIdx, tasks, now, lastExec>>

\* the server's first answer, lower-cased, by the phrases it contains
Responses == SUBSET {"authentication failed", "welcome"}

\* _request_permissions
request_permissions ==
    <<"CAP REQ :twitch.tv/commands", "CAP REQ :twitch.tv/tags",
      "CAP REQ :twitch.tv/membership">>

\* `for chan in channels.values(): self.irc.send(f'JOIN #{chan.name}')`
RECURSIVE join_channels(_)
join_channels(chans) ==
    IF chans = {} THEN <<>>
    ELSE LET c == CHOOSE x \in chans : TRUE
         IN  <<"JOIN #" \o c>> \o join_channels(chans \ {c})

\* every answer is taken for a greeting
connect_result_unchecked(resp) ==
    [ok |-> TRUE, sent |-> request_permissions \o join_channels(Channels)]

\* _connect after the server's answer: whether it returns (else exit(1))
\* and what it sends
connect_result(resp) ==
    IF "authentication failed" \in resp THEN [ok |-> FALSE, sent |-> <<>>]
    ELSE IF "welcome" \notin resp THEN [ok |-> FALSE, sent |-> <<>>]
    ELSE [ok |-> TRUE, sent |-> request_permissions \o join_channels(Channels)]

\* _connect from the server's answer, then on_connected for the bot, the
\* modules and the subscribers, to the first read of the loop
Connect ==
    /\ mainPc = "connecting"
    /\ \E resp \in Responses :
        LET r == connect_result(resp)
        IN  /\ mainPc' = IF r.ok THEN LoopCheck ELSE "exited"
            /\ cur' = [NoCur EXCEPT
                        !.greeted = TRUE, !.resp = resp, !.sent = r.sent,
                        !.awaited = IF r.ok THEN Fanout("on_connected") ELSE {}]
    /\ ev' = NoEv
    /\ UNCHANGED <<running, msg, unloadIdx, tasks, now, lastExec>>

\* one iteration of the loop: a line arrives; suspends says whether the
\* bot's on_raw_message suspends before it returns
\* L: the lines that may arrive; S: whether on_raw_message may suspend;
\* quiet: lines arrive only while no command is in flight
ReadLineIn(L, S, quiet) ==
    /\ mainPc = "read"
    /\ quiet => FreeSlots = Slots
    /\ \E m \in L, suspends \in S :
        /\ mainloop_dispatch(m).run # None => FreeSlots # {}
        /\ IF m.type = ""
           THEN /\ mainPc' = LoopCheck
                /\ cur' = [NoCur EXCEPT !.msg = m]
                /\ UNCHANGED <<msg, tasks>>
           ELSE IF suspends
           THEN /\ mainPc' = "raw"
                /\ msg' = m
                /\ cur' = [NoCur EXCEPT !.msg = m,
                                        !.awaited = {<<"on_raw_message", "bot">>}]
                /\ UNCHANGED tasks
           ELSE Dispatched(m)
    /\ ev' = NoEv
    /\ UNCHANGED <<running, unloadIdx, now, lastExec>>

\* the bot's on_raw_message returns
RawMessageReturns ==
    /\ mainPc = "raw"
    /\ Dispatched(msg)
    /\ ev' = NoEv
    /\ UNCHANGED <<running, unloadIdx, now, lastExec>>

\* BaseBot.shutdown
shutdown ==
    /\ mainPc \in {"read", "raw"}
    /\ running
    /\ running' = FALSE
    /\ cur' = NoCur
    /\ ev' = NoEv
    /\ UNCHANGED <<mainPc, msg, unloadIdx, tasks, now, lastExec>>

\* an unload loop without its try/except: an exception ends mainloop
UnloadMod_unprotected ==
    /\ mainPc = "unload"
    /\ IF unloadIdx < Len(mods)
       THEN /\ unloadIdx' = unloadIdx + 1
            /\ \E raises \in BOOLEAN :
                /\ mainPc' = IF raises THEN "exited" ELSE mainPc
                /\ cur' = [NoCur EXCEPT !.unloaded = mods[unloadIdx + 1],
                                        !.raised = raises]
       ELSE /\ mainPc' = "exited"
            /\ UNCHANGED unloadIdx
            /\ cur' = NoCur
    /\ ev' = NoEv
    /\ UNCHANGED <<running, msg, tasks, now, lastExec>>

\* one round of the loop that unloads the modules after the read loop:
\* `await mod.unloaded()` returns or raises an Exception, which is logged
UnloadMod ==
    /\ mainPc = "unload"
    /\ IF unloadIdx < Len(mods)
       THEN /\ unloadIdx' = unloadIdx + 1
            /\ UNCHANGED mainPc
            /\ \E raises \in BOOLEAN :
                cur' = [NoCur EXCEPT !.unloaded = mods[unloadIdx + 1],
                                     !.raised = raises]
       ELSE /\ mainPc' = "exited"
            /\ UNCHANGED unloadIdx
            /\ cur' = NoCur
    /\ ev' = NoEv
    /\ UNCHANGED <<running, msg, tasks, now, lastExec>>

Init ==
    /\ running = FALSE
    /\ mainPc = "stopped"
    /\ msg = NoMsg
    /\ unloadIdx = 0
    /\ tasks = [s \in Slots |-> NoTask]
    /\ now = 0
    /\ lastExec = [k \in Keys |-> NoRecord]
    /\ cur = NoCur
    /\ ev = NoEv

\* ---------------------------------------------------------- specifications
HookAnswers == [Populations -> BOOLEAN]
Results == {"ok", "invalid_args", "error"}

\* Spec: every kind of line, every answer of the hooks and the stores; the
\* server sends a line only while no command is in flight, so invocations
\* follow each other
ReadLine == ReadLineIn(Lines, BOOLEAN, TRUE)
Gates(s) == GatesIn(s, HookAnswers, BOOLEAN, BOOLEAN, BOOLEAN)
BeforeExecute(s) == BeforeExecuteIn(s, HookAnswers)
ExecuteReturns(s) == ExecuteReturnsIn(s, Results)

Next ==
    \/ Run
    \/ Connect
    \/ ReadLine
    \/ RawMessageReturns
    \/ shutdown
    \/ UnloadMod
    \/ Tick
    \/ \E s \in Slots : Gates(s)
    \/ \E s \in Slots : BeforeExecute(s)
    \/ \E s \in Slots : ExecuteReturns(s)

Spec == Init /\ [][Next]_vars

\* SpecRace: the built-in command arrives in the channel while earlier
\* invocations of it are in flight; no hook refuses, nothing is disabled and
\* every built-in is whitelisted
RaceLines == {m \in Lines : is_privmsg(m) /\ m.author # Nick /\ m.token = "ping"}
ReadLineRace == ReadLineIn(RaceLines, {FALSE}, FALSE)
GatesRace(s) == GatesIn(s, {AllTrue}, {FALSE}, {TRUE}, {FALSE})
BeforeExecuteRace(s) == BeforeExecuteIn(s, {AllTrue})
ExecuteReturnsRace(s) == ExecuteReturnsIn(s, {"ok", "invalid_args"})

NextRace ==
    \/ Run
    \/ Connect
    \/ ReadLineRace
    \/ Tick
    \/ \E s \in Slots : GatesRace(s)
    \/ \E s \in Slots : BeforeExecuteRace(s)
    \/ \E s \in Slots : ExecuteReturnsRace(s)

SpecRace == Init /\ [][NextRace]_vars

\* SpecLive: the loop from start to exit under asyncio's scheduling.  Every
\* coroutine that can run is run: a task created by the loop takes its next
\* step, the read returns when the server has a line (it sends PING
\* regularly and closes the connection on QUIT), the bot's on_raw_message
\* and a module's unloaded() return or raise.
LiveLines ==
    {m \in Lines :
        \/ m.type \in {"PING", "USER_JOIN", ""}
        \/ is_privmsg(m) /\ m.author = "alice" /\ m.token \in {"ping", "hi"}}
ReadLineLive == ReadLineIn(LiveLines, BOOLEAN, TRUE)
GatesLive(s) == GatesIn(s, {AllTrue}, {FALSE}, {TRUE}, {FALSE})
BeforeExecuteLive(s) == BeforeExecuteIn(s, {AllTrue})
ExecuteReturnsLive(s) == ExecuteReturnsIn(s, {"ok", "error"})

NextLive ==
    \/ Run
    \/ Connect
    \/ ReadLineLive
    \/ RawMessageReturns
    \/ shutdown
    \/ UnloadMod
    \/ Tick
    \/ \E s \in Slots : GatesLive(s)
    \/ \E s \in Slots : BeforeExecuteLive(s)
    \/ \E s \in Slots : ExecuteReturnsLive(s)

Scheduling ==
    /\ WF_vars(Connect)
    /\ WF_vars(ReadLineLive)
    /\ WF_vars(RawMessageReturns)
    /\ WF_vars(UnloadMod)
    /\ \A s \in Slots :
        /\ WF_vars(GatesLive(s))
        /\ WF_vars(BeforeExecuteLive(s))
        /\ WF_vars(ExecuteReturnsLive(s))

SpecLive == Init /\ [][NextLive]_vars /\ Scheduling

TypeOK ==
    /\ running \in BOOLEAN
    /\ mainPc \in {"stopped", "connecting", "read", "raw", "unload", "exited"}
    /\ now \in 0..MaxTime

\* ------------------------------------------------------------------- claims
Rejections == {"permission", "disabled", "whitelist", "cooldown"}
Failures == Rejections \cup {"invalid_args"}

HoldsBypass(m, cmd) == has_permission(m.channel_name, m.author, cmd.cooldown_bypass)

\* C1: a _run_command step that is rejected at the permission, disabled,
\* whitelist or cooldown gate does not run the command body, ends the
\* invocation (so the body never runs) and leaves the whole cooldown record
\* as it was.
C1_RejectedLeavesCooldown ==
    [][(ev'.step = "gates" /\ ev'.outcome \in Rejections)
        => /\ lastExec' = lastExec
           /\ ~ev'.body
           /\ tasks'[ev'.task] = NoTask]_vars

\* a call is rejected by the cooldown gate, the record being set
C1_Witness ==
    /\ ev.step = "gates"
    /\ ev.outcome = "cooldown"
    /\ lastExec[Key(ev.msg, ev.cmd)] # NoRecord

\* C2: no step of an invocation whose caller holds the command's
\* cooldown_bypass permission evaluates is_command_on_cooldown or writes the
\* cooldown record, whenever the command last ran and however the body ends.
C2_BypassSkipsCooldown ==
    [][(ev'.task # 0 /\ HoldsBypass(ev'.msg, ev'.cmd))
        => /\ ~ev'.cdChecked
           /\ ~ev'.cdWritten
           /\ lastExec' = lastExec]_vars

\* a holder of the bypass passes the gates while the command is on cooldown
C2_Witness ==
    /\ ev.step = "gates"
    /\ ev.outcome = "pass"
    /\ HoldsBypass(ev.msg, ev.cmd)
    /\ is_command_on_cooldown(ev.msg.channel_name, ev.cmd.name, ev.cmd.cooldown)

\* C3: the body of a command whose permission is set runs only for a caller
\* for whom perms.has_permission(channel, author, cmd.permission) holds.
C3_StaticPermissionChecked ==
    \A s \in Slots :
        (tasks[s].pc = "body" /\ tasks[s].cmd.permission # "")
            => has_permission(tasks[s].msg.channel_name, tasks[s].msg.author,
                              tasks[s].cmd.permission)

RawDeliveries == Fanout("on_raw_message")

\* C4 as claimed: a PING line makes the loop send one PONG and nothing else:
\* no event is awaited or scheduled and no command is run.
C4_PingOnlyPong ==
    cur.msg.type = "PING"
        => /\ cur.awaited = {}
           /\ cur.created = {}
           /\ cur.run = ""

\* C4 as amended: for a PING line the loop delivers on_raw_message to the
\* bot, the modules and the subscribers as for every line and sends one
\* PONG; no other event is delivered and no command is run.
C4_PingPongAndRaw ==
    cur.msg.type = "PING"
        => /\ cur.run = ""
           /\ cur.awaited \cup cur.created \subseteq RawDeliveries
           /\ mainPc = "raw" => cur.pong = 0 /\ cur.created = {}
           /\ mainPc # "raw" =>
                /\ cur.pong = 1
                /\ cur.awaited \cup cur.created = RawDeliveries

\* the loop has dispatched a PING line
C4_Witness ==
    /\ cur.msg.type = "PING"
    /\ cur.pong = 1
    /\ mainPc = "read"

\* C5: while running, the loop is suspended in nothing but the read of the
\* next line, so no handler that fails to return holds it up.
C5_LoopAwaitsOnlyRead ==
    mainPc # "raw"

\* C6: two bodies of the same command in the same channel, run for callers
\* without cooldown bypass, start at least cmd.cooldown seconds apart.
C6_ExecutionsCooldownApart ==
    \A s, o \in Slots :
        (/\ s # o
         /\ tasks[s].pc = "body"
         /\ tasks[o].pc = "body"
         /\ Key(tasks[s].msg, tasks[s].cmd) = Key(tasks[o].msg, tasks[o].cmd)
         /\ ~HoldsBypass(tasks[s].msg, tasks[s].cmd)
         /\ ~HoldsBypass(tasks[o].msg, tasks[o].cmd)
         /\ tasks[s].cmd.cooldown > 0
         /\ tasks[s].start >= tasks[o].start)
            => tasks[s].start - tasks[o].start >= tasks[s].cmd.cooldown

GateSteps == {"gates", "before"}
GatePassed == (ev.step = "gates" /\ ev.outcome # "permission")
              \/ (ev.step = "before" /\ ev.outcome = "started")

\* C7 as claimed: on_permission_check and on_before_command_execute reach
\* the bot hook, the modules and the subscribers, whatever any of them
\* answers.
C7_AllPopulationsAsked ==
    ev.step \in GateSteps => ev.asked = Populations

\* C7 as amended: the populations are asked in the order bot hook, modules,
\* subscribers, and a population is asked exactly when every population
\* before it answered true; the gate passes exactly when every answer that
\* was returned is true.
C7_AskedUntilRefusal ==
    ev.step \in GateSteps
        => /\ "bot" \in ev.asked
           /\ "mods" \in ev.asked <=> ev.hooks["bot"]
           /\ "subs" \in ev.asked <=> (ev.hooks["bot"] /\ ev.hooks["mods"])
           /\ GatePassed <=> (\A p \in ev.asked : ev.hooks[p])

\* the modules veto a command: the subscribers are not asked
C7_Witness ==
    /\ ev.step = "before"
    /\ ev.asked = {"bot", "mods"}
    /\ ~ev.hooks["mods"]

\* C8 as claimed: an invocation that ends in a user-visible failure sends
\* exactly one reply.
C8_ExactlyOneReply ==
    (ev.task # 0 /\ ev.outcome \in Failures) => Len(ev.replies) = 1

RepliesDue(e) ==
    IF e.outcome = "whitelist" /\ ~e.denyMsg THEN 0 ELSE 1

\* C8 as amended: an invocation that ends in a user-visible failure sends
\* exactly one reply, except that a whitelist denial sends none while the
\* whitelist-deny-message flag is off; it ends that invocation only and
\* leaves the loop and its running flag as they were.
C8_OneReplyUnlessSilenced ==
    [][(ev'.task # 0 /\ ev'.outcome \in Failures)
        => /\ Len(ev'.replies) = RepliesDue(ev')
           /\ tasks'[ev'.task] = NoTask
           /\ \A o \in Slots \ {ev'.task} : tasks'[o] = tasks[o]
           /\ mainPc' = mainPc
           /\ running' = running]_vars

\* a call on cooldown is answered once
C8_Witness ==
    /\ ev.outcome = "cooldown"
    /\ Len(ev.replies) = 1
    /\ mainPc = "read"

NotWhitelistedSilent(e) ==
    e.step = "gates" /\ ~e.cmd.custom /\ ~e.whitelisted /\ ~e.denyMsg

\* C9 as claimed: a built-in command that is not whitelisted, invoked while
\* the whitelist-deny-message flag is off, gets no reply and does not run.
C9_NotWhitelistedNoReply ==
    NotWhitelistedSilent(ev)
        => /\ ev.replies = <<>>
           /\ tasks[ev.task] = NoTask

\* C9 as amended: the same, for an invocation that passes the permission
\* gate and the disabled-command gate.
C9_NotWhitelistedNoReplyPastGates ==
    (NotWhitelistedSilent(ev) /\ ev.outcome \notin {"permission", "disabled"})
        => /\ ev.outcome = "whitelist"
           /\ ev.replies = <<>>
           /\ tasks[ev.task] = NoTask

\* a whitelist denial with the flag off
C9_Witness ==
    /\ NotWhitelistedSilent(ev)
    /\ ev.outcome = "whitelist"

Context(m) == IF is_whisper(m) THEN "whisper" ELSE "channel"

\* C10 as claimed: every failure reply goes where the command came from.
C10_ReplyInContext ==
    \A i \in DOMAIN ev.replies : ev.replies[i].via = Context(ev.msg)

\* C10 as amended: the permission-denied reply is always whispered; every
\* other failure reply goes where the command came from.
C10_ReplyInContextButPermission ==
    \A i \in DOMAIN ev.replies :
        ev.replies[i].via = IF ev.replies[i].kind = "permission"
                            THEN "whisper"
                            ELSE Context(ev.msg)

\* a permission denial of a command sent in a channel
C10_Witness ==
    /\ ev.outcome = "permission"
    /\ is_privmsg(ev.msg)
    /\ Len(ev.replies) = 1

PastEarlierGates(e) ==
    e.step = "gates" /\ e.outcome \notin {"permission", "disabled", "whitelist"}

\* C11: a command with cooldown c last ran to completion at t0 and is
\* invoked at t0 + d by a caller without bypass who passes the earlier
\* gates: when d < c the call is rejected, the body does not run and the one
\* reply reports c - d seconds left; when d >= c the cooldown gate lets the
\* call through.
C11_CooldownWindow ==
    (/\ PastEarlierGates(ev)
     /\ ~HoldsBypass(ev.msg, ev.cmd)
     /\ lastExec[Key(ev.msg, ev.cmd)] # NoRecord)
        => LET c == ev.cmd.cooldown
               d == now - lastExec[Key(ev.msg, ev.cmd)]
           IN  /\ d >= 0
               /\ d < c =>
                    /\ ev.outcome = "cooldown"
                    /\ ~ev.body
                    /\ tasks[ev.task] = NoTask
                    /\ ev.replies = <<Reply("cooldown", Context(ev.msg), c - d)>>
               /\ d >= c =>
                    /\ ev.outcome = "pass"
                    /\ ev.replies = <<>>
                    /\ tasks[ev.task].pc = "before"

\* a command with cooldown 2 is called again one second after it ran
C11_Witness ==
    /\ ev.step = "gates"
    /\ ev.outcome = "cooldown"
    /\ ev.cmd.cooldown = 2
    /\ now - lastExec[Key(ev.msg, ev.cmd)] = 1
    /\ ev.replies = <<Reply("cooldown", Context(ev.msg), 1)>>

\* the events the loop delivered for the line of its last step
Delivered == {d[1] : d \in cur.awaited \cup cur.created}

\* the loop has run its if/elif chain over the line of its last step
LineDispatched == cur.msg.type # "" /\ mainPc # "raw"

\* C12: for a USER_JOIN line whose author is the bot's nick the loop
\* delivers on_channel_joined to the bot callback, the modules and the
\* subscribers and on_user_join to none of them; for any other author it
\* delivers on_user_join to the three and on_channel_joined to none.
C12_JoinByAuthor ==
    (LineDispatched /\ cur.msg.type = "USER_JOIN")
        => IF cur.msg.author = Nick
           THEN /\ Fanout("on_channel_joined") \subseteq cur.created
                /\ "on_user_join" \notin Delivered
           ELSE /\ Fanout("on_user_join") \subseteq cur.created
                /\ "on_channel_joined" \notin Delivered

\* the bot's own JOIN has been dispatched
C12_Witness ==
    /\ LineDispatched
    /\ cur.msg.type = "USER_JOIN"
    /\ cur.msg.author = Nick
    /\ Fanout("on_channel_joined") \subseteq cur.created

\* C13: for a PRIVMSG from a user other than the bot whose first token
\* resolves to a command, built-in or custom, through get_command_from_msg,
\* the loop delivers on_privmsg_received to no population.
C13_CommandNoPrivmsgEvent ==
    (/\ LineDispatched
     /\ is_privmsg(cur.msg)
     /\ cur.msg.author # Nick
     /\ get_command_from_msg(cur.msg) # None)
        => "on_privmsg_received" \notin Delivered

\* the loop is in its RUNNING state: reading lines and dispatching them
LoopRunning == mainPc \in {"read", "raw"}

\* C14: once shutdown() has been called while the loop is running, the
\* running flag is cleared and stays cleared, the loop eventually exits and
\* every loaded module has by then been told to unload.
C14_ShutdownExits ==
    /\ [][(LoopRunning /\ ~running) => (~running' /\ mainPc' # "stopped")]_vars
    /\ (LoopRunning /\ ~running)
            ~> (mainPc = "exited" /\ unloadIdx = Len(mods))

\* the loop has exited after a shutdown and the modules are unloaded
C14_Witness ==
    /\ mainPc = "exited"
    /\ ~running
    /\ unloadIdx = Len(mods)

\* C15: after the read loop every loaded module's unloaded() is called
\* exactly once: each round of the unload loop calls the next module of the
\* registry and moves on by one whether the call returns or raises, nothing
\* else moves the loop on, and mainloop ends only when the last module has
\* been called.
C15_EveryModUnloadedOnce ==
    [][/\ cur'.unloaded # ""
            => /\ mainPc = "unload"
               /\ mainPc' = "unload"
               /\ unloadIdx' = unloadIdx + 1
               /\ unloadIdx' \in DOMAIN mods
               /\ cur'.unloaded = mods[unloadIdx']
       /\ unloadIdx' # unloadIdx => cur'.unloaded # ""
       /\ (mainPc = "unload" /\ mainPc' # "unload")
            => /\ mainPc' = "exited"
               /\ unloadIdx = Len(mods)]_vars

\* the first module's unloaded() has raised and the loop goes on
C15_Witness ==
    /\ mainPc = "unload"
    /\ cur.unloaded = mods[1]
    /\ cur.raised
    /\ unloadIdx < Len(mods)

\* the first gate, in the order permission, disabled-command, whitelist,
\* cooldown, that refuses the invocation of step e, from what the hooks and
\* the stores answered
FirstRefusal(e) ==
    IF \E p \in e.asked : ~e.hooks[p] THEN "permission"
    ELSE IF ~e.cmd.custom /\ e.disabled THEN "disabled"
    ELSE IF ~e.cmd.custom /\ ~e.whitelisted THEN "whitelist"
    ELSE IF /\ ~HoldsBypass(e.msg, e.cmd)
            /\ lastExec[Key(e.msg, e.cmd)] # NoRecord
            /\ now - lastExec[Key(e.msg, e.cmd)] < e.cmd.cooldown
    THEN "cooldown"
    ELSE "pass"

\* C16: the gates are evaluated in the order permission, disabled-command,
\* whitelist, cooldown, pre-execute hooks and evaluation stops at the first
\* that refuses: the reply, if any, is the one of that gate,
\* on_before_command_execute is delivered only to an invocation that passed
\* the four earlier gates, and the body starts only when the pre-execute
\* hooks passed too.
C16_GatesInOrder ==
    /\ [](ev.step = "gates"
            => /\ ev.outcome = FirstRefusal(ev)
               /\ Len(ev.replies) <= 1
               /\ \A i \in DOMAIN ev.replies : ev.replies[i].kind = ev.outcome
               /\ ~ev.body)
    /\ [][/\ ev'.step = "before" => tasks[ev'.task].pc = "before"
           /\ \A s \in Slots :
                /\ (tasks'[s].pc = "before" /\ tasks[s].pc # "before")
                    => /\ tasks[s].pc = "perm"
                       /\ ev'.step = "gates"
                       /\ ev'.task = s
                       /\ ev'.outcome = "pass"
                /\ (tasks'[s].pc = "body" /\ tasks[s].pc # "body")
                    => /\ tasks[s].pc = "before"
                       /\ ev'.step = "before"
                       /\ ev'.task = s
                       /\ ev'.asked = Populations
                       /\ \A p \in Populations : ev'.hooks[p]]_vars

\* a disabled built-in that is not whitelisted either: the disabled-command
\* gate answers
C16_Witness ==
    /\ ev.step = "gates"
    /\ ev.outcome = "disabled"
    /\ ~ev.whitelisted
    /\ Len(ev.replies) = 1

\* C17: the cooldown record is written, and on_after_command_execute is
\* delivered (to the bot hook, the modules and the subscribers), only by the
\* step in which the body has returned without raising; when the body
\* raises InvalidArgumentsError one help reply is sent, the record is not
\* written and on_after_command_execute reaches nobody.
C17_AfterOnlyOnSuccess ==
    [][/\ (lastExec' # lastExec \/ ev'.cdWritten \/ ev'.after # {})
            => /\ ev'.step = "execute"
               /\ ev'.outcome = "ok"
       /\ (ev'.step = "execute" /\ ev'.outcome = "ok")
            => /\ ev'.after = Populations
               /\ ev'.cdWritten <=> ~HoldsBypass(ev'.msg, ev'.cmd)
               /\ ev'.cdWritten => lastExec'[Key(ev'.msg, ev'.cmd)] = now
       /\ (ev'.step = "execute" /\ ev'.outcome = "invalid_args")
            => /\ Len(ev'.replies) = 1
               /\ ev'.replies[1].kind = "help"
               /\ ~ev'.cdWritten
               /\ lastExec' = lastExec
               /\ ev'.after = {}
               /\ tasks'[ev'.task] = NoTask]_vars

\* the body of a caller without bypass has raised InvalidArgumentsError
C17_Witness ==
    /\ ev.step = "execute"
    /\ ev.outcome = "invalid_args"
    /\ ~HoldsBypass(ev.msg, ev.cmd)
    /\ Len(ev.replies) = 1
    /\ lastExec[Key(ev.msg, ev.cmd)] = NoRecord

\* C18: when a pre-execute hook answers false to an invocation that passed
\* the four earlier gates, the invocation ends silently: no reply, no body,
\* no write of the cooldown record, no on_after_command_execute.
C18_VetoIsSilent ==
    [][(ev'.step = "before" /\ \E p \in ev'.asked : ~ev'.hooks[p])
            => /\ tasks[ev'.task].pc = "before"
               /\ ev'.outcome = "veto"
               /\ ev'.replies = <<>>
               /\ ~ev'.body
               /\ tasks'[ev'.task] = NoTask
               /\ ~ev'.cdWritten
               /\ lastExec' = lastExec
               /\ ev'.after = {}]_vars

\* the subscribers, asked last, veto the command
C18_Witness ==
    /\ ev.step = "before"
    /\ ev.outcome = "veto"
    /\ ev.asked = Populations
    /\ ~ev.hooks["subs"]
    /\ tasks[ev.task] = NoTask

\* the server's answer is one after which _connect ends the process
Rejected(resp) == "authentication failed" \in resp \/ "welcome" \notin resp

\* C19: the credentials are sent first and alone; when the server's first
\* answer contains 'authentication failed' or lacks 'welcome' the process
\* ends with no CAP REQ, no JOIN, no on_connected and no line read;
\* otherwise the three CAP REQ lines go out before one JOIN per configured
\* channel and on_connected is fired, and only then is the read loop
\* entered and a line dispatched.
C19_ConnectBeforeLoop ==
    [][/\ mainPc = "stopped"
            => /\ cur'.sent \in {<<>>, <<"AUTH">>}
               /\ mainPc' = "connecting" <=> cur'.sent = <<"AUTH">>
               /\ mainPc' \in {"stopped", "connecting", "exited"}
       /\ cur'.greeted <=> (mainPc = "connecting" /\ mainPc' # "connecting")
       /\ (cur'.greeted /\ Rejected(cur'.resp))
            => /\ mainPc' = "exited"
               /\ cur'.sent = <<>>
               /\ cur'.awaited = {}
               /\ cur'.created = {}
       /\ (cur'.greeted /\ ~Rejected(cur'.resp))
            => /\ mainPc' = "read"
               /\ Len(cur'.sent) = 3 + Cardinality(Channels)
               /\ SubSeq(cur'.sent, 1, 3) = request_permissions
               /\ {cur'.sent[i] : i \in 4..Len(cur'.sent)}
                    = {"JOIN #" \o c : c \in Channels}
               /\ Fanout("on_connected") \subseteq cur'.awaited
       /\ (LoopRunning' /\ ~LoopRunning)
            => /\ cur'.greeted
               /\ ~Rejected(cur'.resp)
       /\ cur'.msg # NoMsg => LoopRunning
       /\ mainPc = "exited" => mainPc' = "exited"]_vars

\* the server's answer holds both phrases: the process ends
C19_Witness ==
    /\ cur.greeted
    /\ cur.resp = {"authentication failed", "welcome"}
    /\ mainPc = "exited"
    /\ cur.sent = <<>>

ContextAllows(m, cmd) ==
    \/ is_whisper(m) /\ cmd.context \in {WHISPER, BOTH}
    \/ is_privmsg(m) /\ cmd.context \in {CHANNEL, BOTH}

MayRun(m) ==
    /\ is_user_message(m)
    /\ m.author # Nick
    /\ get_command_from_msg(m) # None
    /\ ContextAllows(m, get_command_from_msg(m))

\* C20: the loop schedules a command exactly for a user message whose
\* author is not the bot and whose kind the command's context includes, and
\* then the command its first token names; for every other line no
\* invocation exists, whatever its first token names.
C20_RunsOnlyInContext ==
    /\ LineDispatched
        => IF MayRun(cur.msg)
           THEN /\ cur.run = get_command_from_msg(cur.msg).name
                /\ \E s \in Slots :
                    tasks[s] = [msg |-> cur.msg,
                                cmd |-> get_command_from_msg(cur.msg),
                                pc |-> "perm", start |-> NoRecord]
           ELSE /\ cur.run = ""
                /\ \A s \in Slots : tasks[s] = NoTask
    /\ \A s \in Slots :
        tasks[s].pc # "none"
            => /\ MayRun(tasks[s].msg)
               /\ tasks[s].cmd = get_command_from_msg(tasks[s].msg)

\* a whisper-only command named in a channel: nothing is scheduled for it
C20_Witness ==
    /\ LineDispatched
    /\ is_privmsg(cur.msg)
    /\ cur.msg.author # Nick
    /\ get_command_from_msg(cur.msg) # None
    /\ get_command_from_msg(cur.msg).context = WHISPER
    /\ cur.run = ""
    /\ \A s \in Slots : tasks[s] = NoTask

====
